---- MODULE Spec2Model ----
(***************************************************************************)
(* labl: a command-line client for the labels of a GitHub repository.      *)
(* One run of the tool is: main -> parseArgs -> runCommand -> handler,     *)
(* suspended at each network call.  The remote label store and the local   *)
(* .json directory persist between runs.                                   *)
(***************************************************************************)
EXTENDS Integers, Sequences, FiniteSets, TLC

\* ---------------------------------------------------------------- bounds
MaxFlags == 4       \* flags on one explored command line
MaxBare == 1        \* of which at most this many carry no value
MaxRuns == 2        \* consecutive runs in a session
MaxExternal == 2    \* labels created by other actors
MaxTokens == 3      \* tokens after the command on a parsed argument list

\* ------------------------------------------------------- JavaScript values
Undefined == [t |-> "undefined", v |-> "undefined"]
Null == [t |-> "null", v |-> "null"]
TrueValue == [t |-> "boolean", v |-> "true"]
FalseValue == [t |-> "boolean", v |-> "false"]
Str(s) == [t |-> "string", v |-> s]
Arr(seq) == [t |-> "array", v |-> seq]

\* truthiness of a primitive or array, as `if (x)` / `!x` / `||` see it
Truthy(x) ==
  \/ x.t = "array"
  \/ x.t = "boolean" /\ x.v = "true"
  \/ x.t = "string" /\ x.v # ""

\* a || b
OrElse(a, b) == IF Truthy(a) THEN a ELSE b

\* `${x}` in a template literal
Interpolate(x) == x.v

\* o[k] on a plain object
Get(o, k) == IF k \in DOMAIN o THEN o[k] ELSE Undefined

\* o[k] = val
Put(o, k, val) == [x \in (DOMAIN o) \cup {k} |-> IF x = k THEN val ELSE o[x]]

EmptyObject == [x \in {} |-> Undefined]

\* JSON.parse(JSON.stringify(o)): members whose value is undefined are dropped
JsonRoundTrip(o) == [k \in {x \in DOMAIN o : o[x].t # "undefined"} |-> o[k]]

\* ------------------------------------------------------------ command line
\* A token is its text split at a leading "--": Flag("owner") is `--owner`.
Flag(k) == [dd |-> TRUE, s |-> k]
Word(s) == [dd |-> FALSE, s |-> s]

TokenTruthy(tok) == tok.dd \/ tok.s # ""

RECURSIVE parseLoop(_, _, _)
parseLoop(args, i, opts) ==
  IF i > Len(args) THEN opts
  ELSE IF TokenTruthy(args[i]) /\ args[i].dd
       THEN IF i + 1 <= Len(args) /\ TokenTruthy(args[i + 1]) /\ ~args[i + 1].dd
            THEN parseLoop(args, i + 2, Put(opts, args[i].s, Str(args[i + 1].s)))
            ELSE parseLoop(args, i + 1, Put(opts, args[i].s, TrueValue))
       ELSE parseLoop(args, i + 1, opts)

\* parseArgs(args) for a non-empty args with a non-empty args[0]
parseArgs(args) == [command |-> args[1], options |-> parseLoop(args, 2, EmptyObject)]

\* --------------------------------------------------- the explored inputs
Commands == {"list", "create", "get", "update", "delete", "copy", "export",
             "import", "clear", "frobnicate"}

\* the flags the usage text documents, in the order a command line gives them
FlagOrder == <<"owner", "repo", "token", "name", "new-name", "color",
               "description", "from-owner", "from-repo", "to-owner", "to-repo", "file">>

\* the flags documented for a command, with --token and, for copy, the
\* --owner/--repo its source falls back to
FlagsOf(cmd) ==
  {"owner", "repo", "token"} \cup
    (CASE cmd = "copy" -> {"from-owner", "from-repo", "to-owner", "to-repo"}
       [] cmd = "import" -> {"file"}
       [] cmd \in {"export", "clear"} -> {}
       [] OTHER -> {"name", "new-name", "color", "description"})

FlagValue(k) ==
  CASE k = "owner" -> "o"
    [] k = "repo" -> "r"
    [] k = "token" -> "tok"
    [] k = "name" -> "bug"
    [] k = "new-name" -> "defect"
    [] k = "color" -> "c2"
    [] k = "description" -> "d2"
    [] k = "from-owner" -> "fo"
    [] k = "from-repo" -> "fr"
    [] k = "to-owner" -> "to"
    [] k = "to-repo" -> "tr"
    [] OTHER -> "labels.json"

\* the flags of S in FlagOrder, those of B without a value
RECURSIVE FlagTokens(_, _, _)
FlagTokens(i, S, B) ==
  IF i > Len(FlagOrder) THEN <<>>
  ELSE (IF FlagOrder[i] \notin S THEN <<>>
        ELSE IF FlagOrder[i] \in B THEN <<Flag(FlagOrder[i])>>
        ELSE <<Flag(FlagOrder[i]), Word(FlagValue(FlagOrder[i]))>>)
       \o FlagTokens(i + 1, S, B)

\* command lines of a single explored run of cmd
CliArgs(cmd) ==
  UNION {{FlagTokens(1, S, B) : B \in {X \in SUBSET S : Cardinality(X) <= MaxBare}} :
           S \in {T \in SUBSET FlagsOf(cmd) : Cardinality(T) <= MaxFlags}}

OnRepo(o, r) == <<Flag("owner"), Word(o), Flag("repo"), Word(r)>>

\* well-formed command lines of a session of several runs
SessionArgs(cmd) ==
  CASE cmd = "list" -> {OnRepo("o", "r")}
    [] cmd = "create" -> {OnRepo("to", "tr") \o <<Flag("name"), Word("bug"), Flag("color"), Word("c2")>>}
    [] cmd = "get" -> {OnRepo("o", "r") \o <<Flag("name"), Word("ui/50% off")>>}
    [] cmd = "update" -> {OnRepo("o", "r") \o u :
                            u \in {<<Flag("name"), Word("ui/50% off"), Flag("color"), Word("c2")>>,
                                   <<Flag("name"), Word("bug"), Flag("newName"), Word("defect")>>}}
    [] cmd = "delete" -> {OnRepo("o", "r") \o <<Flag("name"), Word("bug")>>}
    [] cmd = "copy" -> {OnRepo("o", "r") \o <<Flag("toOwner"), Word("to"), Flag("toRepo"), Word("tr")>>}
    [] cmd = "export" -> {OnRepo("o", "r")}
    [] cmd = "import" -> {OnRepo("to", "tr") \o <<Flag("file"), Word(f)>> :
                            f \in {"labels.json", "../exports/r.json", "bad.json"}}
    [] cmd = "clear" -> {OnRepo("o", "r")}
    [] OTHER -> {<<>>}

\* ------------------------------------------------------------ path segments
\* the text of a string as pieces: a reserved character, or a run of unreserved ones
Pieces(n) ==
  IF n = "ui/50% off" THEN <<"ui", "/", "50", "%", " ", "off">>
  ELSE IF n = "" THEN <<>> ELSE <<n>>

Escape(piece) ==
  CASE piece = "/" -> "%2F" [] piece = " " -> "%20" [] piece = "%" -> "%25" [] OTHER -> piece

\* encodeURI(name): escapes spaces and percent signs but leaves "/" as it is
encodeURI(n) ==
  [i \in 1..Len(Pieces(n)) |-> IF Pieces(n)[i] = "/" THEN "/" ELSE Escape(Pieces(n)[i])]

\* encodeURIComponent(name)
encodeURIComponent(n) == [i \in 1..Len(Pieces(n)) |-> Escape(Pieces(n)[i])]

Unescape(piece) ==
  CASE piece = "%2F" -> "/" [] piece = "%20" -> " " [] piece = "%25" -> "%" [] OTHER -> piece

\* percent-decoding of one path segment
decodeURIComponent(segment) == [i \in 1..Len(segment) |-> Unescape(segment[i])]

\* the segments of a path: what stands between its "/" characters
RECURSIVE PathSegments(_, _)
PathSegments(path, current) ==
  IF path = <<>> THEN <<current>>
  ELSE IF Head(path) = "/" THEN <<current>> \o PathSegments(Tail(path), <<>>)
  ELSE PathSegments(Tail(path), Append(current, Head(path)))

\* -------------------------------------------------------- the remote side
RepoIds == {<<"o", "r">>, <<"fo", "fr">>, <<"to", "tr">>}
LabelNames == {"bug", "ui/50% off"}

\* labels another actor (or the hosting service, for default ones) may create
Labels == {[name |-> Str(n), color |-> Str("c1"),
            description |-> IF n = "bug" THEN Str("d1") ELSE Null, default |-> df] :
             n \in LabelNames, df \in {TrueValue, FalseValue}}

NoRequest == [method |-> "none", repo |-> <<"", "">>, name |-> "", path |-> <<>>,
              body |-> EmptyObject, token |-> ""]

Position(labels, n) ==
  IF \E i \in 1..Len(labels) : labels[i].name = Str(n)
  THEN CHOOSE i \in 1..Len(labels) : labels[i].name = Str(n)
  ELSE 0

\* the label of labels whose name has these pieces
Named(labels, pieces) ==
  IF \E i \in 1..Len(labels) : Pieces(labels[i].name.v) = pieces
  THEN CHOOSE i \in 1..Len(labels) : Pieces(labels[i].name.v) = pieces
  ELSE 0

\* the label a path below /labels/ addresses: the path must be one segment, which
\* is percent-decoded; a path with a raw "/" is no label's
PositionAt(labels, path) ==
  IF \E j \in 1..Len(path) : path[j] = "/" THEN 0
  ELSE Named(labels, decodeURIComponent(path))

Without(labels, i) == [j \in 1..(Len(labels) - 1) |-> IF j < i THEN labels[j] ELSE labels[j + 1]]

Failure(status, statusText, text) ==
  [ok |-> FALSE, status |-> status, statusText |-> statusText, text |-> text,
   json |-> FALSE, data |-> Undefined]

Success(status, data) ==
  [ok |-> TRUE, status |-> status, statusText |-> "OK", text |-> <<>>,
   json |-> TRUE, data |-> data]

NoContent ==
  [ok |-> TRUE, status |-> "204", statusText |-> "No Content", text |-> <<>>,
   json |-> FALSE, data |-> Undefined]

NoResponse ==
  [ok |-> FALSE, status |-> "", statusText |-> "", text |-> <<>>, json |-> FALSE,
   data |-> Undefined]

NotFound == Failure("404", "Not Found", <<"Not", "Found">>)
ServerError == Failure("500", "Internal Server Error", <<"oops">>)
Invalid(code) == Failure("422", "Unprocessable Entity", <<"Validation", "Failed", code>>)

Patched(label, body) ==
  [k \in DOMAIN label |-> IF k \in DOMAIN body /\ k # "default" THEN body[k] ELSE label[k]]

\* what the hosting service answers to req when it holds rem, and what it holds then
Served(req, rem) ==
  IF req.repo \notin RepoIds THEN {[res |-> NotFound, remote |-> rem]}
  ELSE LET labels == rem[req.repo]
           at == PositionAt(labels, req.path)
           new == Get(req.body, "name")
       IN CASE req.method = "GET" /\ req.path = <<>> ->
                 {[res |-> Success("200", Arr(labels)), remote |-> rem]}
            [] req.method = "POST" ->
                 IF new.t # "string" \/ new.v = "" \/ Get(req.body, "color").t # "string"
                 THEN {[res |-> Invalid("missing_field"), remote |-> rem]}
                 ELSE IF Position(labels, new.v) # 0
                 THEN {[res |-> Invalid("already_exists"), remote |-> rem]}
                 ELSE LET made == [name |-> new, color |-> req.body.color,
                                   description |-> IF Get(req.body, "description").t = "string"
                                                   THEN req.body.description ELSE Null,
                                   default |-> FalseValue]
                      IN {[res |-> Success("201", made),
                           remote |-> [rem EXCEPT ![req.repo] = Append(labels, made)]]}
            [] req.method = "GET" /\ req.path # <<>> ->
                 IF at = 0 THEN {[res |-> NotFound, remote |-> rem]}
                 ELSE {[res |-> Success("200", labels[at]), remote |-> rem]}
            [] req.method = "PATCH" ->
                 IF at = 0 THEN {[res |-> NotFound, remote |-> rem]}
                 ELSE IF new.t = "string" /\ new # labels[at].name /\ Position(labels, new.v) # 0
                 THEN {[res |-> Invalid("already_exists"), remote |-> rem]}
                 ELSE {[res |-> Success("200", Patched(labels[at], req.body)),
                        remote |-> [rem EXCEPT ![req.repo][at] = Patched(labels[at], req.body)]]}
            [] req.method = "DELETE" ->
                 IF at = 0 THEN {[res |-> NotFound, remote |-> rem]}
                 ELSE {[res |-> r, remote |-> [rem EXCEPT ![req.repo] = Without(labels, at)]] :
                         r \in {NoContent, Success("200", EmptyObject)}}
            [] OTHER -> {[res |-> NotFound, remote |-> rem]}

\* every answer a request can get: the service's own, or a fault that changes nothing
Answers(req, rem) == Served(req, rem) \cup {[res |-> ServerError, remote |-> rem]}

\* ------------------------------------------------------ GitHubLabelsAPI
\* a request whose error is the same for every failure
requestAnonymousError(res) ==
  IF ~res.ok
  THEN [threw |-> TRUE, value |-> Undefined, message |-> <<"GitHub API error">>]
  ELSE IF ~res.json
  THEN [threw |-> TRUE, value |-> Undefined, message |-> <<"JSON Parse error">>]
  ELSE [threw |-> FALSE, value |-> res.data, message |-> <<>>]

\* a request whose error names the status but drops the body of the response
requestWithoutBody(res) ==
  IF ~res.ok
  THEN [threw |-> TRUE, value |-> Undefined,
        message |-> <<"GitHub API error:", res.status, res.statusText>>]
  ELSE IF ~res.json
  THEN [threw |-> TRUE, value |-> Undefined, message |-> <<"JSON Parse error">>]
  ELSE [threw |-> FALSE, value |-> res.data, message |-> <<>>]

\* request(): the outcome of `await this.request(...)` for the response res
request(res) ==
  IF ~res.ok
  THEN [threw |-> TRUE, value |-> Undefined,
        message |-> <<"GitHub API error:", res.status, res.statusText>> \o res.text]
  ELSE IF ~res.json
  THEN [threw |-> TRUE, value |-> Undefined, message |-> <<"JSON Parse error">>]
  ELSE [threw |-> FALSE, value |-> res.data, message |-> <<>>]

\* a test that only looks at the start of the message
IncludesAtStart(message, word) == Len(message) >= 1 /\ message[1] = word

\* errorMessage.includes(word)
Includes(message, word) == \E i \in 1..Len(message) : message[i] = word

\* the request an operation hands to fetch: name is the operation's argument,
\* path what its endpoint carries after /repos/<owner>/<repo>/labels/
Call(method, token, owner, repo, name, path, body) ==
  [method |-> method, repo |-> <<Interpolate(owner), Interpolate(repo)>>, name |-> name,
   path |-> path, body |-> JsonRoundTrip(body), token |-> Interpolate(token)]

listLabels(token, owner, repo) == Call("GET", token, owner, repo, "", <<>>, EmptyObject)
createLabel(token, owner, repo, label) == Call("POST", token, owner, repo, "", <<>>, label)

getLabel(token, owner, repo, name) ==
  Call("GET", token, owner, repo, Interpolate(name),
       encodeURIComponent(Interpolate(name)), EmptyObject)

updateLabel(token, owner, repo, name, updates) ==
  Call("PATCH", token, owner, repo, Interpolate(name),
       encodeURIComponent(Interpolate(name)), updates)

deleteLabel(token, owner, repo, name) ==
  Call("DELETE", token, owner, repo, Interpolate(name),
       encodeURIComponent(Interpolate(name)), EmptyObject)

\* ------------------------------------------------------- the .json files
ImportsDir == <<".json", "imports">>
ExportsDir == <<".json", "exports">>

\* `${repo}.json`
JsonFileName(repo) ==
  CASE repo = "r" -> "r.json" [] repo = "tr" -> "tr.json" [] repo = "fr" -> "fr.json"
    [] OTHER -> "true.json"

\* the segments of a --file value
Segments(file) ==
  IF file = "../exports/r.json" THEN <<"..", "exports", "r.json">> ELSE <<file>>

\* the file the operating system opens for a path with ".." segments
RECURSIVE Resolve(_, _)
Resolve(dir, segs) ==
  IF segs = <<>> THEN dir
  ELSE IF Head(segs) = ".." THEN Resolve(SubSeq(dir, 1, Len(dir) - 1), Tail(segs))
  ELSE Resolve(Append(dir, Head(segs)), Tail(segs))

InitialFiles ==
  LET good == ImportsDir \o <<"labels.json">>
      bad == ImportsDir \o <<"bad.json">>
  IN [p \in {good, bad} |->
        IF p = good
        THEN [labels |-> Arr(<<[name |-> Str("bug"), color |-> Str("c1"),
                                description |-> Str("d1"), default |-> TrueValue],
                               [name |-> Str("ui/50% off"), color |-> Str("c3")]>>)]
        ELSE [repository |-> Str("o/r")]]

\* ------------------------------------------------------------------ state
VARIABLES
  mode,          \* "cli": one run of any explored command line; "session": several well-formed runs
  GITHUB_TOKEN,  \* the environment's credential
  remote,        \* the labels of each repository, in list order
  fs,            \* the files under .json
  external,      \* labels created by other actors so far
  runs,          \* runs started so far
  argv,          \* process.argv.slice(2) of the current run
  command,       \* args[0]
  options,       \* the options parseArgs returned
  pc,            \* where the current run is suspended
  exitCode,      \* the process's exit code
  inflight,      \* the request awaiting its response
  calls,         \* the requests the current run has issued, in order
  items,         \* the collection a batch command iterates
  idx,           \* the item the batch is at
  successCount, skipCount, errorCount,
  out,           \* what the current run has printed
  response,      \* the response to the last request the current run completed
  sourceLabels,  \* handleCopy's sourceLabels, before the filter
  exportedFrom,  \* the labels the exported repository held when it was last exported
  start,         \* whether the current run repeats a clean import, and what it then started from
  faulted        \* whether a request of such a repeated run was answered by a fault

vars == <<mode, GITHUB_TOKEN, remote, fs, external, runs, argv, command, options, pc,
          exitCode, inflight, calls, items, idx, successCount, skipCount, errorCount, out,
          response, sourceLabels, exportedFrom, start, faulted>>

\* the start of a run that repeats the one before: the remote and the external count
\* it found; nothing is kept of the start of any other run
StartOf(rem, ext, rep) ==
  IF rep THEN [remote |-> rem, external |-> ext, repeats |-> TRUE]
  ELSE [remote |-> [id \in RepoIds |-> <<>>], external |-> 0, repeats |-> FALSE]

Init ==
  /\ mode \in {"cli", "session"}
  /\ GITHUB_TOKEN \in (IF mode = "cli" THEN {Undefined, Str("env")} ELSE {Str("env")})
  /\ remote = [id \in RepoIds |-> <<>>]
  /\ fs = InitialFiles
  /\ external = 0
  /\ runs = 0
  /\ argv = <<>>
  /\ command = Word("")
  /\ options = EmptyObject
  /\ pc = "idle"
  /\ exitCode = 0
  /\ inflight = NoRequest
  /\ calls = <<>>
  /\ items = <<>>
  /\ idx = 0
  /\ successCount = 0
  /\ skipCount = 0
  /\ errorCount = 0
  /\ out = <<>>
  /\ response = NoResponse
  /\ sourceLabels = <<>>
  /\ exportedFrom = <<>>
  /\ start = StartOf([id \in RepoIds |-> <<>>], 0, FALSE)
  /\ faulted = FALSE

\* ----------------------------------------------- where a handler gets to
\* A handler runs until it exits or awaits a request; At is what it left behind.
At(newpc, req, code, msgs, its, i, sc, kc, ec) ==
  [pc |-> newpc, req |-> req, code |-> code, msgs |-> msgs, items |-> its, idx |-> i,
   sc |-> sc, kc |-> kc, ec |-> ec]

\* process.exit(1) before any batch started
Fail(msg) == At("exited", NoRequest, 1, <<msg>>, <<>>, 0, 0, 0, 0)

\* await of a single request outside a batch
Await(newpc, req, msgs) == At(newpc, req, 0, msgs, <<>>, 0, 0, 0, 0)

Reach(o, oldCalls, oldOut) ==
  /\ pc' = o.pc
  /\ inflight' = o.req
  /\ calls' = IF o.req.method = "none" THEN oldCalls ELSE Append(oldCalls, o.req)
  /\ exitCode' = o.code
  /\ out' = oldOut \o o.msgs
  /\ items' = o.items
  /\ idx' = o.idx
  /\ successCount' = o.sc
  /\ skipCount' = o.kc
  /\ errorCount' = o.ec

\* the run about to start repeats the one that just ended: the same import, which
\* read its file and ended with no failed label
Repeats(args) ==
  /\ pc = "exited" /\ args = argv /\ Len(args) >= 1 /\ args[1] = Word("import")
  /\ exitCode = 0 /\ errorCount = 0

\* main: a new process parses its arguments and calls runCommand
Begin(args, o) ==
  /\ argv' = args
  /\ command' = parseArgs(args).command
  /\ options' = parseArgs(args).options
  /\ runs' = runs + 1
  /\ Reach(o, <<>>, <<>>)
  /\ response' = NoResponse
  /\ sourceLabels' = <<>>
  /\ start' = StartOf(remote, external, Repeats(args))
  /\ faulted' = FALSE
  /\ UNCHANGED <<mode, GITHUB_TOKEN, remote, fs, external, exportedFrom>>

CanStart ==
  \/ pc = "idle"
  \/ pc = "exited" /\ mode = "session" /\ runs < MaxRuns

ArgsFor(cmd) == IF mode = "cli" THEN CliArgs(cmd) ELSE SessionArgs(cmd)

\* a credential check that falls back to an anonymous credential
TokenOfAnonymous(opts) ==
  OrElse(OrElse(GITHUB_TOKEN, Get(opts, "token")), Str("anonymous"))

\* const token = GITHUB_TOKEN || options.token
TokenOf(opts) == OrElse(GITHUB_TOKEN, Get(opts, "token"))

\* commands whose handler takes the options and validates them itself
OptionsHandled == {"copy", "export"}
\* import and clear are routed the same way; the routing itself is not part of
\* the sources at hand and follows the documented behaviour of the two commands
BatchRouted == {"import", "clear"}
Switched == {"list", "create", "get", "update", "delete"}

\* ------------------------------------------------ single-label handlers
handleList(token, owner, repo) == Await("list", listLabels(token, owner, repo), <<>>)

\* a create that asks for the name only
handleCreateNameOnly(token, owner, repo, opts) ==
  IF ~Truthy(Get(opts, "name"))
  THEN Fail("Error: --name and --color are required for create command.")
  ELSE Await("create",
             createLabel(token, owner, repo,
                         [name |-> Get(opts, "name"), color |-> Get(opts, "color"),
                          description |-> Get(opts, "description")]),
             <<>>)

handleCreate(token, owner, repo, opts) ==
  IF ~Truthy(Get(opts, "name")) \/ ~Truthy(Get(opts, "color"))
  THEN Fail("Error: --name and --color are required for create command.")
  ELSE Await("create",
             createLabel(token, owner, repo,
                         [name |-> Get(opts, "name"), color |-> Get(opts, "color"),
                          description |-> Get(opts, "description")]),
             <<>>)

handleGet(token, owner, repo, opts) ==
  IF ~Truthy(Get(opts, "name"))
  THEN Fail("Error: --name is required for get command.")
  ELSE Await("get", getLabel(token, owner, repo, Get(opts, "name")), <<>>)

\* a patch that carries the description member whether or not it was given
UpdatesAlwaysDescription(opts) ==
  LET u1 == IF Truthy(Get(opts, "newName")) THEN Put(EmptyObject, "name", Get(opts, "newName"))
            ELSE EmptyObject
      u2 == IF Truthy(Get(opts, "color")) THEN Put(u1, "color", Get(opts, "color")) ELSE u1
  IN Put(u2, "description", Get(opts, "description"))

\* the sparse patch handleUpdate builds
Updates(opts) ==
  LET u1 == IF Truthy(Get(opts, "newName")) THEN Put(EmptyObject, "name", Get(opts, "newName"))
            ELSE EmptyObject
      u2 == IF Truthy(Get(opts, "color")) THEN Put(u1, "color", Get(opts, "color")) ELSE u1
  IN IF Get(opts, "description").t # "undefined"
     THEN Put(u2, "description", Get(opts, "description")) ELSE u2

handleUpdate(token, owner, repo, opts) ==
  IF ~Truthy(Get(opts, "name"))
  THEN Fail("Error: --name is required for update command.")
  ELSE IF DOMAIN Updates(opts) = {}
  THEN Fail("Error: At least one update option is required.")
  ELSE Await("update", updateLabel(token, owner, repo, Get(opts, "name"), Updates(opts)), <<>>)

handleDelete(token, owner, repo, opts) ==
  IF ~Truthy(Get(opts, "name"))
  THEN Fail("Error: --name is required for delete command.")
  ELSE Await("delete", deleteLabel(token, owner, repo, Get(opts, "name")), <<>>)

\* ------------------------------------------------------------------ copy
CopySource(opts) == <<OrElse(Get(opts, "fromOwner"), Get(opts, "owner")),
                      OrElse(Get(opts, "fromRepo"), Get(opts, "repo"))>>
CopyDestination(opts) == <<Get(opts, "toOwner"), Get(opts, "toRepo")>>

handleCopy(token, opts) ==
  IF ~Truthy(CopySource(opts)[1]) \/ ~Truthy(CopySource(opts)[2])
  THEN Fail("Error: Source repository required.")
  ELSE IF ~Truthy(CopyDestination(opts)[1]) \/ ~Truthy(CopyDestination(opts)[2])
  THEN Fail("Error: Destination repository required.")
  ELSE Await("copy_list", listLabels(token, CopySource(opts)[1], CopySource(opts)[2]),
             <<"Copying labels">>)

\* a copy that forgets to filter the default labels out
CustomLabelsUnfiltered(labels) == labels

\* sourceLabels.filter(label => !label.default)
CustomLabels(labels) == SelectSeq(labels, LAMBDA l : ~Truthy(Get(l, "default")))

CreateRequestOf(label) ==
  [name |-> Get(label, "name"), color |-> Get(label, "color"),
   description |-> Get(label, "description")]

\* a loop that gives up at the first failed create
CopyLoopAbortsOnFailure(token, opts, its, i, sc, ec, msgs) ==
  IF i > Len(its) \/ ec > 0
  THEN At("exited", NoRequest, 0, msgs \o <<"Copy completed">>, its, i, sc, 0, ec)
  ELSE At("copy_create",
          createLabel(token, CopyDestination(opts)[1], CopyDestination(opts)[2],
                      CreateRequestOf(its[i])),
          0, msgs, its, i, sc, 0, ec)

\* the for loop of handleCopy at item i, after msgs were printed
CopyLoop(token, opts, its, i, sc, ec, msgs) ==
  IF i > Len(its)
  THEN At("exited", NoRequest, 0, msgs \o <<"Copy completed">>, its, i, sc, 0, ec)
  ELSE At("copy_create",
          createLabel(token, CopyDestination(opts)[1], CopyDestination(opts)[2],
                      CreateRequestOf(its[i])),
          0, msgs, its, i, sc, 0, ec)

\* ---------------------------------------------------------------- export
handleExport(token, opts) ==
  IF ~Truthy(Get(opts, "owner")) \/ ~Truthy(Get(opts, "repo"))
  THEN Fail("Error: --owner and --repo are required for export command.")
  ELSE Await("export_list", listLabels(token, Get(opts, "owner"), Get(opts, "repo")),
             <<"Exporting labels">>)

\* an export that leaves the description out
ExportedLabelNoDescription(label) ==
  [name |-> Get(label, "name"), color |-> Get(label, "color"),
   description |-> Undefined, default |-> Get(label, "default")]

ExportedLabel(label) ==
  [name |-> Get(label, "name"), color |-> Get(label, "color"),
   description |-> Get(label, "description"), default |-> Get(label, "default")]

\* JSON.stringify(exportData, null, 2), as JSON.parse reads it back
ExportFile(opts, labels) ==
  [repository |-> [t |-> "string",
                   v |-> <<Interpolate(Get(opts, "owner")), "/", Interpolate(Get(opts, "repo"))>>],
   exportedAt |-> Str("now"),
   labels |-> Arr([i \in 1..Len(labels) |-> JsonRoundTrip(ExportedLabel(labels[i]))])]

ExportPath(opts) == ExportsDir \o <<JsonFileName(Interpolate(Get(opts, "repo")))>>

\* ----------------------------------------------------------------- clear
handleClear(token, opts) ==
  IF ~Truthy(Get(opts, "owner")) \/ ~Truthy(Get(opts, "repo"))
  THEN Fail("Error: --owner and --repo are required for clear command.")
  ELSE Await("clear_list", listLabels(token, Get(opts, "owner"), Get(opts, "repo")),
             <<"Clearing all labels">>)

\* a loop that gives up at the first failed delete
ClearLoopAbortsOnFailure(token, opts, its, i, sc, ec, msgs) ==
  IF i > Len(its) \/ ec > 0
  THEN At("exited", NoRequest, 0, msgs \o <<"Clear completed">>, its, i, sc, 0, ec)
  ELSE At("clear_delete",
          deleteLabel(token, Get(opts, "owner"), Get(opts, "repo"), Get(its[i], "name")),
          0, msgs, its, i, sc, 0, ec)

\* a loop that lists the repository again when it is through, until it finds it empty
ClearLoopUntilEmpty(token, opts, its, i, sc, ec, msgs) ==
  IF i > Len(its)
  THEN At("clear_list", listLabels(token, Get(opts, "owner"), Get(opts, "repo")),
          0, msgs, its, i, sc, 0, ec)
  ELSE At("clear_delete",
          deleteLabel(token, Get(opts, "owner"), Get(opts, "repo"), Get(its[i], "name")),
          0, msgs, its, i, sc, 0, ec)

ClearLoop(token, opts, its, i, sc, ec, msgs) ==
  IF i > Len(its)
  THEN At("exited", NoRequest, 0, msgs \o <<"Clear completed">>, its, i, sc, 0, ec)
  ELSE At("clear_delete",
          deleteLabel(token, Get(opts, "owner"), Get(opts, "repo"), Get(its[i], "name")),
          0, msgs, its, i, sc, 0, ec)

\* ---------------------------------------------------------------- import
ImportPath(opts) == Resolve(ImportsDir, Segments(Interpolate(Get(opts, "file"))))

ImportCreate(token, opts, its, i, sc, kc, ec, msgs) ==
  At("import_create",
     createLabel(token, Get(opts, "owner"), Get(opts, "repo"), CreateRequestOf(its[i])),
     0, msgs, its, i, sc, kc, ec)

\* a loop that looks every label up, default-flagged or not
ImportLoopLooksUpEvery(token, opts, its, i, sc, kc, ec, msgs) ==
  IF i > Len(its)
  THEN At("exited", NoRequest, 0, msgs \o <<"Import completed">>, its, i, sc, kc, ec)
  ELSE At("import_get",
          getLabel(token, Get(opts, "owner"), Get(opts, "repo"), Get(its[i], "name")),
          0, msgs, its, i, sc, kc, ec)

\* a loop whose exit code reports the failed items
ImportLoopExitsOnErrors(token, opts, its, i, sc, kc, ec, msgs) ==
  IF i > Len(its)
  THEN At("exited", NoRequest, IF ec > 0 THEN 1 ELSE 0, msgs \o <<"Import completed">>,
          its, i, sc, kc, ec)
  ELSE IF Truthy(Get(its[i], "default"))
  THEN At("import_get",
          getLabel(token, Get(opts, "owner"), Get(opts, "repo"), Get(its[i], "name")),
          0, msgs, its, i, sc, kc, ec)
  ELSE ImportCreate(token, opts, its, i, sc, kc, ec, msgs)

\* the for loop of handleImport at item i, after msgs were printed
ImportLoop(token, opts, its, i, sc, kc, ec, msgs) ==
  IF i > Len(its)
  THEN At("exited", NoRequest, 0, msgs \o <<"Import completed">>, its, i, sc, kc, ec)
  ELSE IF Truthy(Get(its[i], "default"))
  THEN At("import_get",
          getLabel(token, Get(opts, "owner"), Get(opts, "repo"), Get(its[i], "name")),
          0, msgs, its, i, sc, kc, ec)
  ELSE ImportCreate(token, opts, its, i, sc, kc, ec, msgs)

handleImport(token, opts, files) ==
  IF ~Truthy(Get(opts, "owner")) \/ ~Truthy(Get(opts, "repo"))
  THEN Fail("Error: --owner and --repo are required for import command.")
  ELSE IF ~Truthy(Get(opts, "file"))
  THEN Fail("Error: --file is required for import command.")
  ELSE IF ImportPath(opts) \notin DOMAIN files
  THEN At("exited", NoRequest, 1, <<"Importing labels", "Error: File not found">>,
          <<>>, 0, 0, 0, 0)
  ELSE IF ~Truthy(Get(files[ImportPath(opts)], "labels"))
          \/ Get(files[ImportPath(opts)], "labels").t # "array"
  THEN At("exited", NoRequest, 1, <<"Importing labels", "Error: Invalid JSON format.">>,
          <<>>, 0, 0, 0, 0)
  ELSE ImportLoop(token, opts, Get(files[ImportPath(opts)], "labels").v, 1, 0, 0, 0,
                  <<"Importing labels", "Found labels to import">>)

\* ------------------------------------------------- main and runCommand
Line(cmd, a) == <<Word(cmd)>> \o a

\* main with no arguments prints the usage; parseArgs throws on an empty args[0]
MainNoCommand ==
  /\ CanStart
  /\ \E args \in {<<>>, <<Word("")>>} :
       /\ argv' = args
       /\ command' = Word("")
       /\ options' = EmptyObject
       /\ runs' = runs + 1
       /\ Reach(IF args = <<>>
                THEN At("exited", NoRequest, 0, <<"usage">>, <<>>, 0, 0, 0, 0)
                ELSE Fail("Error: No command provided"), <<>>, <<>>)
       /\ response' = NoResponse
       /\ sourceLabels' = <<>>
       /\ start' = StartOf(remote, external, FALSE)
       /\ faulted' = FALSE
       /\ UNCHANGED <<mode, GITHUB_TOKEN, remote, fs, external, exportedFrom>>

RunNoToken ==
  /\ CanStart
  /\ \E cmd \in Commands : \E a \in ArgsFor(cmd) :
       /\ ~Truthy(TokenOf(parseArgs(Line(cmd, a)).options))
       /\ Begin(Line(cmd, a), Fail("Error: GitHub token is required."))

RunCopy ==
  /\ CanStart
  /\ \E a \in ArgsFor("copy") :
       LET opts == parseArgs(Line("copy", a)).options IN
       /\ Truthy(TokenOf(opts))
       /\ Begin(Line("copy", a), handleCopy(TokenOf(opts), opts))

RunExport ==
  /\ CanStart
  /\ \E a \in ArgsFor("export") :
       LET opts == parseArgs(Line("export", a)).options IN
       /\ Truthy(TokenOf(opts))
       /\ Begin(Line("export", a), handleExport(TokenOf(opts), opts))

RunImport ==
  /\ CanStart
  /\ \E a \in ArgsFor("import") :
       LET opts == parseArgs(Line("import", a)).options IN
       /\ Truthy(TokenOf(opts))
       /\ Begin(Line("import", a), handleImport(TokenOf(opts), opts, fs))

RunClear ==
  /\ CanStart
  /\ \E a \in ArgsFor("clear") :
       LET opts == parseArgs(Line("clear", a)).options IN
       /\ Truthy(TokenOf(opts))
       /\ Begin(Line("clear", a), handleClear(TokenOf(opts), opts))

RunMissingRepo ==
  /\ CanStart
  /\ \E cmd \in Commands \ (OptionsHandled \cup BatchRouted) : \E a \in ArgsFor(cmd) :
       LET opts == parseArgs(Line(cmd, a)).options IN
       /\ Truthy(TokenOf(opts))
       /\ ~Truthy(Get(opts, "owner")) \/ ~Truthy(Get(opts, "repo"))
       /\ Begin(Line(cmd, a), Fail("Error: --owner and --repo are required."))

\* the switch of runCommand, reached with a token, an owner and a repo
Dispatch(cmd, opts) ==
  LET token == TokenOf(opts)
      owner == Get(opts, "owner")
      repo == Get(opts, "repo")
  IN CASE cmd = "list" -> handleList(token, owner, repo)
       [] cmd = "create" -> handleCreate(token, owner, repo, opts)
       [] cmd = "get" -> handleGet(token, owner, repo, opts)
       [] cmd = "update" -> handleUpdate(token, owner, repo, opts)
       [] cmd = "delete" -> handleDelete(token, owner, repo, opts)
       [] OTHER -> At("exited", NoRequest, 1, <<"Unknown command", "usage">>, <<>>, 0, 0, 0, 0)

Switch(cmd, a) ==
  LET opts == parseArgs(Line(cmd, a)).options IN
  /\ Truthy(TokenOf(opts))
  /\ Truthy(Get(opts, "owner")) /\ Truthy(Get(opts, "repo"))
  /\ Begin(Line(cmd, a), Dispatch(cmd, opts))

RunList ==
  /\ CanStart
  /\ \E a \in ArgsFor("list") : Switch("list", a)

RunCreate ==
  /\ CanStart
  /\ \E a \in ArgsFor("create") : Switch("create", a)

RunGet ==
  /\ CanStart
  /\ \E a \in ArgsFor("get") : Switch("get", a)

RunUpdate ==
  /\ CanStart
  /\ \E a \in ArgsFor("update") : Switch("update", a)

RunDelete ==
  /\ CanStart
  /\ \E a \in ArgsFor("delete") : Switch("delete", a)

RunUnknown ==
  /\ CanStart
  /\ \E cmd \in Commands \ (OptionsHandled \cup BatchRouted \cup Switched) :
       \E a \in ArgsFor(cmd) : Switch(cmd, a)

\* ------------------------------------------------------------ responses
\* the awaited fetch resolves with the answer a
Receive(a) ==
  /\ remote' = a.remote
  /\ response' = a.res
  /\ faulted' = (faulted \/ (start.repeats /\ a \notin Served(inflight, remote)))

Token == TokenOf(options)

\* a handler of the switch resumes: its result is printed, or main's catch exits 1
Finish(msg) ==
  /\ \E a \in Answers(inflight, remote) :
       /\ Receive(a)
       /\ Reach(IF request(a.res).threw
                THEN At("exited", NoRequest, 1, <<"Error:">> \o request(a.res).message,
                        <<>>, 0, 0, 0, 0)
                ELSE At("exited", NoRequest, 0, <<msg>>, <<>>, 0, 0, 0, 0), calls, out)
  /\ UNCHANGED <<mode, start, GITHUB_TOKEN, fs, external, runs, argv, command, options, sourceLabels,
                 exportedFrom>>

ListResponse ==
  /\ pc = "list"
  /\ Finish("Labels:")

CreateResponse ==
  /\ pc = "create"
  /\ Finish("Created label")

GetResponse ==
  /\ pc = "get"
  /\ Finish("Label:")

UpdateResponse ==
  /\ pc = "update"
  /\ Finish("Updated label")

DeleteResponse ==
  /\ pc = "delete"
  /\ Finish("Deleted label")

CopyListResponse ==
  /\ pc = "copy_list"
  /\ \E a \in Answers(inflight, remote) :
       /\ Receive(a)
       /\ sourceLabels' = IF request(a.res).threw THEN <<>> ELSE request(a.res).value.v
       /\ Reach(IF request(a.res).threw
                THEN At("exited", NoRequest, 1, <<"Error copying labels:">>, <<>>, 0, 0, 0, 0)
                ELSE CopyLoop(Token, options, CustomLabels(request(a.res).value.v), 1, 0, 0,
                              <<"Found labels", "Copying custom labels">>), calls, out)
  /\ UNCHANGED <<mode, start, GITHUB_TOKEN, fs, external, runs, argv, command, options, exportedFrom>>

CopyCreateResponse ==
  /\ pc = "copy_create"
  /\ \E a \in Answers(inflight, remote) :
       /\ Receive(a)
       /\ Reach(IF request(a.res).threw
                THEN CopyLoop(Token, options, items, idx + 1, successCount, errorCount + 1,
                              <<"Failed to copy label">>)
                ELSE CopyLoop(Token, options, items, idx + 1, successCount + 1, errorCount,
                              <<"Copied label">>), calls, out)
  /\ UNCHANGED <<mode, start, GITHUB_TOKEN, fs, external, runs, argv, command, options, sourceLabels,
                 exportedFrom>>

ExportListResponse ==
  /\ pc = "export_list"
  /\ \E a \in Answers(inflight, remote) : \E written \in BOOLEAN :
       /\ Receive(a)
       /\ IF request(a.res).threw \/ ~written
          THEN /\ Reach(At("exited", NoRequest, 1, <<"Error exporting labels:">>, <<>>, 0, 0, 0, 0),
                        calls, out)
               /\ fs' = fs
               /\ exportedFrom' = exportedFrom
          ELSE /\ exportedFrom' = remote[inflight.repo]
               /\ Reach(At("exited", NoRequest, 0, <<"Found labels", "Exported labels">>,
                           <<>>, 0, 0, 0, 0), calls, out)
               /\ fs' = [p \in (DOMAIN fs) \cup {ExportPath(options)} |->
                           IF p = ExportPath(options)
                           THEN ExportFile(options, request(a.res).value.v) ELSE fs[p]]
  /\ UNCHANGED <<mode, start, GITHUB_TOKEN, external, runs, argv, command, options,
                 sourceLabels>>

ClearListResponse ==
  /\ pc = "clear_list"
  /\ \E a \in Answers(inflight, remote) :
       /\ Receive(a)
       /\ Reach(IF request(a.res).threw
                THEN At("exited", NoRequest, 1, <<"Error clearing labels:">>, <<>>, 0, 0, 0, 0)
                ELSE IF Len(request(a.res).value.v) = 0
                THEN At("exited", NoRequest, 0, <<"Found labels", "No labels to delete.">>,
                        <<>>, 0, 0, 0, 0)
                ELSE ClearLoop(Token, options, request(a.res).value.v, 1, 0, 0,
                               <<"Found labels", "Deleting labels">>), calls, out)
  /\ UNCHANGED <<mode, start, GITHUB_TOKEN, fs, external, runs, argv, command, options, sourceLabels,
                 exportedFrom>>

ClearDeleteResponse ==
  /\ pc = "clear_delete"
  /\ \E a \in Answers(inflight, remote) :
       /\ Receive(a)
       /\ Reach(IF request(a.res).threw
                THEN ClearLoop(Token, options, items, idx + 1, successCount, errorCount + 1,
                               <<"Failed to delete label">>)
                ELSE ClearLoop(Token, options, items, idx + 1, successCount + 1, errorCount,
                               <<"Deleted label">>), calls, out)
  /\ UNCHANGED <<mode, start, GITHUB_TOKEN, fs, external, runs, argv, command, options, sourceLabels,
                 exportedFrom>>

ImportGetResponse ==
  /\ pc = "import_get"
  /\ \E a \in Answers(inflight, remote) :
       /\ Receive(a)
       /\ Reach(IF request(a.res).threw
                THEN ImportCreate(Token, options, items, idx, successCount, skipCount,
                                  errorCount, <<>>)
                ELSE ImportLoop(Token, options, items, idx + 1, successCount, skipCount + 1,
                                errorCount, <<"Skipped default label">>), calls, out)
  /\ UNCHANGED <<mode, start, GITHUB_TOKEN, fs, external, runs, argv, command, options, sourceLabels,
                 exportedFrom>>

ImportCreateResponse ==
  /\ pc = "import_create"
  /\ \E a \in Answers(inflight, remote) :
       /\ Receive(a)
       /\ Reach(IF ~request(a.res).threw
                THEN ImportLoop(Token, options, items, idx + 1, successCount + 1, skipCount,
                                errorCount, <<"Imported label">>)
                ELSE IF Includes(request(a.res).message, "already_exists")
                THEN ImportLoop(Token, options, items, idx + 1, successCount, skipCount + 1,
                                errorCount, <<"Skipped existing label">>)
                ELSE ImportLoop(Token, options, items, idx + 1, successCount, skipCount,
                                errorCount + 1, <<"Failed to import label">>), calls, out)
  /\ UNCHANGED <<mode, start, GITHUB_TOKEN, fs, external, runs, argv, command, options, sourceLabels,
                 exportedFrom>>

\* ------------------------------------------------------- the environment
\* another actor creates a label in the repository the pending request addresses
ExternalCreate ==
  /\ mode = "session"
  /\ inflight.method # "none"
  /\ inflight.repo \in RepoIds
  /\ external < MaxExternal
  /\ \E l \in Labels :
       /\ Position(remote[inflight.repo], l.name.v) = 0
       /\ remote' = [remote EXCEPT ![inflight.repo] = Append(@, l)]
  /\ external' = external + 1
  /\ UNCHANGED <<mode, start, faulted, GITHUB_TOKEN, fs, runs, argv, command, options, pc,
                 exitCode, inflight,
                 calls, items, idx, successCount, skipCount, errorCount, out, response,
                 sourceLabels, exportedFrom>>

Next ==
  \/ MainNoCommand
  \/ RunNoToken
  \/ RunCopy
  \/ RunExport
  \/ RunImport
  \/ RunClear
  \/ RunMissingRepo
  \/ RunList
  \/ RunCreate
  \/ RunGet
  \/ RunUpdate
  \/ RunDelete
  \/ RunUnknown
  \/ ListResponse
  \/ CreateResponse
  \/ GetResponse
  \/ UpdateResponse
  \/ DeleteResponse
  \/ CopyListResponse
  \/ CopyCreateResponse
  \/ ExportListResponse
  \/ ClearListResponse
  \/ ClearDeleteResponse
  \/ ImportGetResponse
  \/ ImportCreateResponse
  \/ ExternalCreate

Spec == Init /\ [][Next]_vars

\* every request is answered
Respond ==
  \/ ListResponse \/ CreateResponse \/ GetResponse \/ UpdateResponse \/ DeleteResponse
  \/ CopyListResponse \/ CopyCreateResponse \/ ExportListResponse
  \/ ClearListResponse \/ ClearDeleteResponse
  \/ ImportGetResponse \/ ImportCreateResponse

LiveSpec == Init /\ [][Next]_vars /\ WF_vars(Respond)

\* ===================================================================
\* ---------------------------------------------------- parseArgs alone
\* argument lists of any shape: flags repeated or without a value, stray words,
\* empty tokens
ParseTokens == {Flag("name"), Flag("description"), Word("bug"), Word("")}

RECURSIVE TokenLists(_)
TokenLists(n) ==
  IF n = 0 THEN {<<>>}
  ELSE TokenLists(n - 1) \cup
       {Append(l, t) : l \in {x \in TokenLists(n - 1) : Len(x) = n - 1}, t \in ParseTokens}

ParseInit ==
  /\ mode = "parse"
  /\ GITHUB_TOKEN = Str("env")
  /\ remote = [id \in RepoIds |-> <<>>]
  /\ fs = InitialFiles
  /\ external = 0
  /\ runs = 0
  /\ argv \in {<<Word("update")>> \o l : l \in TokenLists(MaxTokens)}
  /\ command = Word("")
  /\ options = EmptyObject
  /\ pc = "idle"
  /\ exitCode = 0
  /\ inflight = NoRequest
  /\ calls = <<>>
  /\ items = <<>>
  /\ idx = 0
  /\ successCount = 0
  /\ skipCount = 0
  /\ errorCount = 0
  /\ out = <<>>
  /\ response = NoResponse
  /\ sourceLabels = <<>>
  /\ exportedFrom = <<>>
  /\ start = StartOf([id \in RepoIds |-> <<>>], 0, FALSE)
  /\ faulted = FALSE

\* const { command, options } = parseArgs(args)
Parse ==
  /\ mode = "parse"
  /\ pc = "idle"
  /\ command' = parseArgs(argv).command
  /\ options' = parseArgs(argv).options
  /\ pc' = "parsed"
  /\ UNCHANGED <<mode, start, faulted, GITHUB_TOKEN, remote, fs, external, runs, argv,
                 exitCode, inflight,
                 calls, items, idx, successCount, skipCount, errorCount, out, response,
                 sourceLabels, exportedFrom>>

ParseSpec == ParseInit /\ [][Parse]_vars

\* Properties
\* ===================================================================
HasFlag(args, k) == \E i \in 2..Len(args) : args[i] = Flag(k)

\* the value the command line gives flag k: the token after it, unless that is a flag or empty
ArgValue(args, k) ==
  IF \E i \in 2..(Len(args) - 1) : args[i] = Flag(k) /\ ~args[i + 1].dd /\ args[i + 1].s # ""
  THEN Str(args[1 + CHOOSE i \in 2..(Len(args) - 1) :
                      args[i] = Flag(k) /\ ~args[i + 1].dd /\ args[i + 1].s # ""].s)
  ELSE Undefined

Given(args, k) == ArgValue(args, k).t = "string"

\* the text carries the word
Mentions(text, word) == word \in {text[i] : i \in 1..Len(text)}

Count(seq, x) == Cardinality({i \in 1..Len(seq) : seq[i] = x})

Requests(method) == SelectSeq(calls, LAMBDA c : c.method = method)

Started == runs >= 1 /\ pc # "idle"
Ended == Started /\ pc = "exited"

\* C1: a run of any command with no credential in the environment and no
\* --token flag on the command line ends with a non-zero exit code and has
\* issued no network call.
C1_NoCredentialNoCall ==
  (Started /\ Len(argv) >= 1 /\ GITHUB_TOKEN = Undefined /\ ~HasFlag(argv, "token"))
    => (pc = "exited" /\ exitCode # 0 /\ calls = <<>>)

C1_Witness ==
  /\ Ended /\ GITHUB_TOKEN = Undefined /\ ~HasFlag(argv, "token")
  /\ command = Word("clear") /\ Given(argv, "owner") /\ Given(argv, "repo")
  /\ exitCode = 1 /\ calls = <<>>

\* C2: update with a credential, an owner, a repo and a name but with none of
\* the options newName, color, description set exits 1 without a network call.
C2_UpdateNeedsMutation ==
  (Started /\ command = Word("update") /\ Truthy(TokenOf(options))
     /\ Truthy(Get(options, "owner")) /\ Truthy(Get(options, "repo"))
     /\ Truthy(Get(options, "name"))
     /\ DOMAIN options \cap {"newName", "color", "description"} = {})
    => (pc = "exited" /\ exitCode = 1 /\ calls = <<>>)

C2_Witness ==
  /\ Ended /\ command = Word("update") /\ GITHUB_TOKEN = Str("env")
  /\ Given(argv, "owner") /\ Given(argv, "repo") /\ Given(argv, "name")
  /\ DOMAIN options = {"owner", "repo", "name"}
  /\ exitCode = 1 /\ calls = <<>>

\* C3: update run from the command line with a credential, --owner, --repo,
\* --name and `--new-name v` as its only mutation flag issues exactly one
\* PATCH, to the label --name names, whose body carries name = v.
C3_NewNameFlagIsPatched ==
  (Started /\ command = Word("update") /\ Truthy(TokenOf(options))
     /\ Given(argv, "owner") /\ Given(argv, "repo") /\ Given(argv, "name")
     /\ Given(argv, "new-name")
     /\ ~HasFlag(argv, "color") /\ ~HasFlag(argv, "description"))
    => /\ Len(calls) = 1
       /\ calls[1].method = "PATCH"
       /\ calls[1].repo = <<ArgValue(argv, "owner").v, ArgValue(argv, "repo").v>>
       /\ calls[1].name = ArgValue(argv, "name").v
       /\ Get(calls[1].body, "name") = ArgValue(argv, "new-name")

\* the default-flagged labels among labels
DefaultCount(labels) == Cardinality({i \in 1..Len(labels) : Truthy(Get(labels[i], "default"))})

NamedPosts(name) ==
  Cardinality({i \in 1..Len(calls) : calls[i].method = "POST" /\ Get(calls[i].body, "name") = name})

\* the run's last line about an item (the summary line excluded)
LastItemLine == IF pc = "exited" THEN out[Len(out) - 1] ELSE out[Len(out)]

CopyListed == command = Word("copy") /\ (pc = "copy_create" \/ (Ended /\ exitCode = 0))

\* C4: copy attempts one create per non-default label of the N listed (K of
\* them default) and none for a default one; a failed create, "already
\* exists" included, counts as failed, never as skipped; at the end
\* successCount + errorCount = N - K.
C4_CopyAccounting ==
  CopyListed =>
    LET n == Len(sourceLabels)
        k == DefaultCount(sourceLabels)
        posts == Requests("POST")
    IN /\ Len(calls) = 1 => response.ok /\ sourceLabels = response.data.v
       /\ skipCount = 0
       /\ successCount = Count(out, "Copied label")
       /\ errorCount = Count(out, "Failed to copy label")
       /\ \A i \in 1..n :
            NamedPosts(sourceLabels[i].name) =
              IF Truthy(sourceLabels[i].default) THEN 0
              ELSE IF pc = "exited" \/ \E j \in 1..idx : items[j] = sourceLabels[i] THEN 1 ELSE 0
       /\ \A j \in 1..Len(posts) : posts[j].repo = <<CopyDestination(options)[1].v,
                                                     CopyDestination(options)[2].v>>
       /\ Len(posts) >= 2 \/ (Len(posts) = 1 /\ pc = "exited")
            => (request(response).threw <=> LastItemLine = "Failed to copy label")
       /\ pc = "exited" =>
            /\ Len(posts) = n - k
            /\ successCount + errorCount = n - k

C4_Witness ==
  /\ CopyListed /\ pc = "exited"
  /\ DefaultCount(sourceLabels) >= 1
  /\ Len(sourceLabels) - DefaultCount(sourceLabels) >= 1
  /\ errorCount >= 1
  /\ Mentions(response.text, "already_exists")

\* the repository a pair of flags names on the command line
Pair(args, ownerFlag, repoFlag) == <<ArgValue(args, ownerFlag), ArgValue(args, repoFlag)>>
PairGiven(p) == p[1].t = "string" /\ p[2].t = "string"

CopySourceGiven(args) ==
  IF PairGiven(Pair(args, "from-owner", "from-repo"))
  THEN Pair(args, "from-owner", "from-repo") ELSE Pair(args, "owner", "repo")

\* C5: copy run from the command line with a credential and --from-owner,
\* --from-repo, --to-owner, --to-repo each with a value lists the --from
\* repository and creates into the --to repository; without the --from pair
\* the --owner/--repo pair is the source; copy exits 1 without a network call
\* only when the source pair or the destination pair is missing.
C5_CopyFlagsAddressRepos ==
  (Started /\ command = Word("copy") /\ Truthy(TokenOf(options))
     /\ ~HasFlag(argv, "fromOwner") /\ ~HasFlag(argv, "fromRepo")
     /\ ~HasFlag(argv, "toOwner") /\ ~HasFlag(argv, "toRepo"))
    => IF PairGiven(CopySourceGiven(argv)) /\ PairGiven(Pair(argv, "to-owner", "to-repo"))
       THEN /\ Len(calls) >= 1
            /\ calls[1].method = "GET"
            /\ calls[1].repo = <<CopySourceGiven(argv)[1].v, CopySourceGiven(argv)[2].v>>
            /\ \A i \in 2..Len(calls) :
                 calls[i].repo = <<ArgValue(argv, "to-owner").v, ArgValue(argv, "to-repo").v>>
       ELSE TRUE

ClearListed == command = Word("clear") /\ (pc = "clear_delete" \/ (Ended /\ exitCode = 0))

\* C6: clear attempts one delete per label of the N listed, default labels
\* included, in list order, and ends with successCount + errorCount = N; on
\* an empty list it reports that there is nothing to delete and deletes nothing.
C6_ClearAccounting ==
  ClearListed =>
    LET deletes == Requests("DELETE")
        n == Len(items)
    IN /\ Len(calls) = 1 \/ (pc = "clear_delete" /\ idx = 1)
            => response.ok /\ items = response.data.v
       /\ Len(deletes) = IF pc = "exited" THEN n ELSE idx
       /\ \A j \in 1..Len(deletes) :
            /\ deletes[j].name = items[j].name.v
            /\ deletes[j].repo = <<Get(options, "owner").v, Get(options, "repo").v>>
       /\ skipCount = 0
       /\ successCount + errorCount = IF pc = "exited" THEN n ELSE idx - 1
       /\ pc = "exited" /\ n = 0
            => Count(out, "No labels to delete.") = 1 /\ Len(deletes) = 0

C6_Witness ==
  /\ ClearListed /\ pc = "exited"
  /\ Len(items) = 2 /\ DefaultCount(items) >= 1
  /\ successCount = 1 /\ errorCount = 1

C6_WitnessEmpty ==
  /\ ClearListed /\ pc = "exited" /\ Len(items) = 0 /\ Len(calls) = 1

ImportItemLines == {"Skipped default label", "Imported label", "Skipped existing label",
                    "Failed to import label"}
ImportLines == SelectSeq(out, LAMBDA m : m \in ImportItemLines)

ImportReading == command = Word("import")
                   /\ (pc \in {"import_get", "import_create"} \/ (Ended /\ exitCode = 0))

\* the request the response in hand answers
Answered == IF pc = "exited" THEN calls[Len(calls)] ELSE calls[Len(calls) - 1]
HasAnswered == IF pc = "exited" THEN Len(calls) >= 1 ELSE Len(calls) >= 2

\* C7: in import a create that fails with a message containing
\* "already_exists" adds to skipCount and not to errorCount, any other failed
\* create adds to errorCount, and a default-flagged label whose lookup
\* succeeds adds to skipCount and gets no create.
C7_ImportClassification ==
  ImportReading =>
    /\ successCount = Count(out, "Imported label")
    /\ skipCount = Count(out, "Skipped default label") + Count(out, "Skipped existing label")
    /\ errorCount = Count(out, "Failed to import label")
    /\ HasAnswered /\ Answered.method = "POST" =>
         LastItemLine = IF response.ok /\ response.json THEN "Imported label"
                        ELSE IF Mentions(response.text, "already_exists")
                        THEN "Skipped existing label"
                        ELSE "Failed to import label"
    /\ HasAnswered /\ Answered.method = "GET" /\ response.ok =>
         /\ LastItemLine = "Skipped default label"
         /\ inflight.method = "POST" => Get(inflight.body, "name").v # Answered.name
    /\ \A j \in 1..Len(ImportLines) :
         ImportLines[j] = "Skipped default label" =>
           /\ Truthy(Get(items[j], "default"))
           /\ NamedPosts(Get(items[j], "name")) = 0

C7_Witness ==
  /\ ImportReading /\ pc = "exited"
  /\ Count(out, "Skipped default label") = 1
  /\ Count(out, "Skipped existing label") = 1
  /\ Mentions(response.text, "already_exists")

BatchCommand == command \in {Word("copy"), Word("clear"), Word("import")}

\* the batch has its collection: the list call or the file read succeeded
BatchEntered == CopyListed \/ ClearListed \/ ImportReading

SummaryLines == {"Copy completed", "Clear completed", "Import completed"}
Summaries == Cardinality({i \in 1..Len(out) : out[i] \in SummaryLines})

ItemLines == ImportItemLines \cup {"Copied label", "Failed to copy label", "Deleted label",
                                   "Failed to delete label"}
Processed == Cardinality({i \in 1..Len(out) : out[i] \in ItemLines})

\* the calls about items: all but the list call of copy and clear
ItemCalls == IF command = Word("import") THEN calls ELSE Tail(calls)

\* the item a call is about
ItemOf(c) ==
  CHOOSE i \in 1..Len(items) :
    Get(items[i], "name").v = IF c.method = "POST" THEN Get(c.body, "name").v ELSE c.name

\* calls follow the input order, one item at a time, and no item is left out
InInputOrder ==
  BatchEntered =>
    /\ inflight.method # "none" => inflight = calls[Len(calls)] /\ pc # "exited"
    /\ \A a \in 1..Len(ItemCalls) : \A b \in a..Len(ItemCalls) :
         ItemOf(ItemCalls[a]) <= ItemOf(ItemCalls[b])
    /\ pc # "exited" =>
         /\ ItemOf(inflight) = idx
         /\ Processed = idx - 1
    /\ pc = "exited" => Processed = Len(items)
    /\ Summaries <= 1

\* C8 as stated: a batch that got its collection ends with every item
\* processed and the summary printed exactly once.
C8_SummaryAlwaysPrinted ==
  (BatchEntered /\ pc = "exited") => (Processed = Len(items) /\ Summaries = 1)

\* C8, amended: copy, clear and import take their items one at a time in
\* input order, a failed item does not stop the later ones, and when every
\* request is answered the batch ends with every item processed and the
\* summary printed exactly once, except that clear on an empty list prints
\* "No labels to delete." and no summary.
C8_SequentialBatch ==
  /\ [](InInputOrder)
  /\ [](BatchEntered /\ pc = "exited" =>
          IF command = Word("clear") /\ items = <<>>
          THEN Summaries = 0 /\ Count(out, "No labels to delete.") = 1
          ELSE Summaries = 1)
  /\ (BatchCommand /\ Started /\ pc # "exited") ~> (BatchCommand /\ pc = "exited")

C8_Witness ==
  /\ BatchEntered /\ pc = "exited" /\ command = Word("import")
  /\ Len(items) = 2 /\ Summaries = 1
  /\ out[Len(out) - 2] = "Failed to import label"
  /\ out[Len(out) - 1] = "Imported label"

\* the list call answered, or the import file read and of the expected shape
InitialSucceeded ==
  IF command = Word("import")
  THEN /\ Truthy(TokenOf(options))
       /\ Truthy(Get(options, "owner")) /\ Truthy(Get(options, "repo"))
       /\ Truthy(Get(options, "file"))
       /\ ImportPath(options) \in DOMAIN fs
       /\ Get(fs[ImportPath(options)], "labels").t = "array"
  ELSE Len(calls) >= 2 \/ (Len(calls) = 1 /\ response.ok /\ response.json)

\* C9: a batch command whose list call or file read succeeded exits 0
\* however many items failed; exit 1 is left to failed validation and to a
\* failed list call, file read or shape check.
C9_BatchExitCode ==
  (Ended /\ BatchCommand) =>
    /\ exitCode \in {0, 1}
    /\ InitialSucceeded <=> exitCode = 0

C9_Witness ==
  /\ Ended /\ BatchCommand /\ exitCode = 0
  /\ Len(items) = 2 /\ errorCount = 2

Triple(l) == <<Get(l, "name"), Get(l, "color"), Get(l, "description")>>
NonDefault(labels) == {labels[i] : i \in {j \in 1..Len(labels) : ~Truthy(Get(labels[j], "default"))}}
Held(id) == {remote[id][i] : i \in 1..Len(remote[id])}

ImportTarget == <<Get(options, "owner").v, Get(options, "repo").v>>

\* an import of the exported snapshot into another repository that held
\* nothing and that nobody else touched, every create succeeding
RoundTripDone ==
  /\ Ended /\ command = Word("import") /\ exitCode = 0
  /\ Truthy(Get(options, "file"))
  /\ ImportPath(options) = ExportsDir \o <<"r.json">>
  /\ ImportTarget \in RepoIds \ {<<"o", "r">>}
  /\ successCount = Len(items)
  /\ Len(remote[ImportTarget]) = Len(items)

\* C10: after export of R and import of the snapshot into an empty R', the
\* (name, color, description) triples of R's non-default labels are those of
\* the labels of the same names in R'.
C10_RoundTrip ==
  RoundTripDone =>
    {Triple(l) : l \in NonDefault(exportedFrom)}
      = {Triple(l) : l \in {h \in Held(ImportTarget) :
                              \E d \in NonDefault(exportedFrom) : Get(d, "name") = Get(h, "name")}}

C10_Witness ==
  /\ RoundTripDone
  /\ Len(exportedFrom) = 2
  /\ DefaultCount(exportedFrom) = 1
  /\ \E l \in NonDefault(exportedFrom) : Get(l, "description") = Str("d1")

\* ---------------------------------------------------------------- C11
NamedCalls == SelectSeq(calls, LAMBDA c : c.method \in {"GET", "PATCH", "DELETE"} /\ c.name # "")

\* C11: the path get, update and delete build for a label name holds no raw
\* "/" and no raw space, so it is one segment below /labels/, and
\* percent-decoding that segment gives the name back.
C11_NameIsOneEncodedSegment ==
  \A i \in 1..Len(NamedCalls) :
    LET c == NamedCalls[i]
    IN /\ \A j \in 1..Len(c.path) : c.path[j] \notin {"/", " "}
       /\ Len(PathSegments(c.path, <<>>)) = 1
       /\ decodeURIComponent(PathSegments(c.path, <<>>)[1]) = Pieces(c.name)

\* an update of the label named "ui/50% off" was answered with the changed label
C11_Witness ==
  /\ Ended /\ command = Word("update") /\ exitCode = 0
  /\ Len(calls) = 1 /\ calls[1].method = "PATCH" /\ calls[1].name = "ui/50% off"
  /\ response.ok

\* ---------------------------------------------------------------- C12
Missing(k) == ~HasFlag(argv, k)

\* the command line lacks a flag its command requires
LacksRequired ==
  \/ /\ command.s \in {"list", "create", "get", "update", "delete", "export", "clear", "import"}
     /\ Missing("owner") \/ Missing("repo")
  \/ command.s = "create" /\ (Missing("name") \/ Missing("color"))
  \/ command.s \in {"get", "update", "delete"} /\ Missing("name")
  \/ command.s = "import" /\ Missing("file")

\* C12: a run whose command line lacks a required flag (owner or repo for every
\* command but copy; name, and for create color; the file of import) ends at
\* once with exit code 1 and no network call; create sends its POST only when
\* both --name and --color were given.
C12_ValidationIsTerminal ==
  (Started /\ Len(argv) >= 1) =>
    /\ LacksRequired => (pc = "exited" /\ exitCode = 1 /\ calls = <<>>)
    /\ (command.s = "create" /\ Requests("POST") # <<>>)
         => (HasFlag(argv, "name") /\ HasFlag(argv, "color"))

\* create with a credential, owner, repo and name but no color was refused
C12_Witness ==
  /\ Ended /\ command = Word("create") /\ Truthy(TokenOf(options))
  /\ Given(argv, "owner") /\ Given(argv, "repo") /\ Given(argv, "name") /\ Missing("color")
  /\ exitCode = 1 /\ calls = <<>>
  /\ out = <<"Error: --name and --color are required for create command.">>

\* ---------------------------------------------------------------- C13
Recognised == {"list", "create", "get", "update", "delete", "copy", "export", "import", "clear"}

\* C13: a run whose command name is not a recognised one prints the usage and
\* ends with a non-zero exit code and no network call, whatever options it has.
C13_UnknownPrintsUsage ==
  (Started /\ Len(argv) >= 1 /\ command.s # "" /\ command.s \notin Recognised)
    => (pc = "exited" /\ exitCode # 0 /\ calls = <<>> /\ Mentions(out, "usage"))

\* ---------------------------------------------------------------- C14
SingleCommands == {"list", "create", "get", "update", "delete"}

\* a run of a single-label command ended after its request was answered
SingleAnswered == Ended /\ command.s \in SingleCommands /\ response # NoResponse

\* C14: an operation of the client sends one request and never repeats it; on a
\* non-success status the error it fails with carries the status, the status
\* text and the body of the response; on a success status it does not fail
\* with that error.
C14_OneRequestAndDiagnosticError ==
  SingleAnswered =>
    /\ Len(calls) = 1
    /\ ~response.ok =>
         /\ exitCode = 1
         /\ Mentions(out, "GitHub API error:")
         /\ Mentions(out, response.status) /\ Mentions(out, response.statusText)
         /\ \A i \in 1..Len(response.text) : Mentions(out, response.text[i])
    /\ response.ok => ~Mentions(out, "GitHub API error:")

\* create was refused by the remote with a 422 whose body names already_exists
C14_Witness ==
  /\ SingleAnswered /\ command = Word("create") /\ response.status = "422"
  /\ Mentions(out, "already_exists") /\ exitCode = 1 /\ Len(calls) = 1

\* ---------------------------------------------------------------- C15
FlagKeys == {argv[i].s : i \in {j \in 2..Len(argv) : argv[j].dd}}

LastAt(k) == CHOOSE i \in 2..Len(argv) :
               argv[i] = Flag(k) /\ \A j \in (i + 1)..Len(argv) : argv[j] # Flag(k)

\* what the flag k stands for: the token after its last occurrence when that
\* token does not start with "--", the presence marker otherwise
StoredFor(k) ==
  IF LastAt(k) + 1 <= Len(argv) /\ ~argv[LastAt(k) + 1].dd
  THEN Str(argv[LastAt(k) + 1].s)
  ELSE TrueValue

\* C15: parseArgs stores every "--" token followed by a token that does not
\* start with "--" with that token as its value, every other "--" token as
\* true, nothing for any other token, and the last occurrence of a repeated flag.
C15_ParseArgsStoresValues ==
  pc = "parsed" =>
    /\ command = argv[1]
    /\ DOMAIN options = FlagKeys
    /\ \A k \in FlagKeys : options[k] = StoredFor(k)

\* ---------------------------------------------------------------- C16
\* the lookups and the creates the run has issued for the label named name
LookupsAt(name) == {i \in 1..Len(calls) : calls[i].method = "GET" /\ calls[i].name = name.v}
CreatesAt(name) ==
  {i \in 1..Len(calls) : calls[i].method = "POST" /\ Get(calls[i].body, "name") = name}

\* items with an outcome so far
ImportDone == IF pc = "exited" THEN Len(items) ELSE idx - 1

\* C16: import gives every label of the snapshot exactly one outcome, so the
\* three tallies sum to N at the end; it looks up default-flagged labels only,
\* at most once and before any create of that label; it attempts a create for
\* every label but the default-flagged ones whose lookup succeeded; a
\* default-flagged label whose lookup failed, for whatever reason, is created.
C16_ImportAccounting ==
  ImportReading =>
    /\ successCount + skipCount + errorCount = ImportDone
    /\ Len(ImportLines) = ImportDone
    /\ pc = "exited" => idx = Len(items) + 1
    /\ \A j \in 1..Len(items) :
         LET name == Get(items[j], "name")
             flagged == Truthy(Get(items[j], "default"))
             lookups == LookupsAt(name)
             creates == CreatesAt(name)
         IN /\ Cardinality(lookups) = IF flagged /\ (j <= ImportDone \/ j = idx) THEN 1 ELSE 0
            /\ \A g \in lookups : \A c \in creates : g < c
            /\ j <= ImportDone =>
                 Cardinality(creates) =
                   IF ImportLines[j] = "Skipped default label" THEN 0 ELSE 1
    /\ (HasAnswered /\ Answered.method = "GET" /\ ~response.ok) =>
         /\ pc = "import_create"
         /\ inflight.method = "POST" /\ Get(inflight.body, "name").v = Answered.name

\* an import of two labels ended: the lookup of the default-flagged one failed,
\* so it was created, as was the other
C16_Witness ==
  /\ ImportReading /\ pc = "exited" /\ Len(items) = 2
  /\ Len(calls) = 3 /\ calls[1].method = "GET" /\ calls[2].method = "POST"
  /\ calls[2].body.name.v = calls[1].name
  /\ successCount = 2

\* ---------------------------------------------------------------- C17
\* the run repeated a clean import, no other actor touched the remote since it
\* started, and every request was answered by the hosting service itself
RepeatedImportEnded ==
  /\ Ended /\ command = Word("import") /\ start.repeats
  /\ external = start.external /\ ~faulted

\* C17: an import run again with the same snapshot on the same target, with no
\* external modification and duplicates rejected as already_exists, leaves the
\* labels of the target as they were and skips every label: no success, no failure.
C17_ImportIsIdempotent ==
  RepeatedImportEnded =>
    /\ exitCode = 0
    /\ remote = start.remote
    /\ successCount = 0 /\ errorCount = 0 /\ skipCount = Len(items)

\* the second import of a snapshot of two labels skipped one after its lookup
\* and the other after its create was rejected
C17_Witness ==
  /\ RepeatedImportEnded /\ Len(items) = 2 /\ skipCount = 2
  /\ Count(out, "Skipped default label") = 1 /\ Count(out, "Skipped existing label") = 1
  /\ Len(remote[<<"to", "tr">>]) = 2

\* ---------------------------------------------------------------- C18
\* C18: a DELETE answered with a success status, with or without a body, does
\* not fail: the delete command reports the label deleted and exits 0, and
\* clear counts the label as successful.
C18_DeleteSucceedsOnSuccessStatus ==
  /\ (Ended /\ command = Word("delete") /\ response # NoResponse /\ response.ok)
       => (exitCode = 0 /\ Mentions(out, "Deleted label"))
  /\ (ClearListed /\ HasAnswered /\ Answered.method = "DELETE" /\ response.ok)
       => LastItemLine = "Deleted label"

\* ---------------------------------------------------------------- C19
\* the flag is on the command line without a value
Valueless(k) == HasFlag(argv, k) /\ ~Given(argv, k)

\* a parameter the command requires was given as a flag without a value
RequiredIsValueless ==
  \/ GITHUB_TOKEN = Undefined /\ Valueless("token")
  \/ /\ command.s \in {"list", "create", "get", "update", "delete", "export", "clear", "import"}
     /\ Valueless("owner") \/ Valueless("repo")
  \/ command.s \in {"create", "get", "update", "delete"} /\ Valueless("name")
  \/ command.s = "create" /\ Valueless("color")
  \/ command.s = "import" /\ Valueless("file")

\* C19: a required parameter given as a flag without a value counts as missing:
\* the run ends with exit code 1 and no network call, so every call issued
\* carries strings for the credential, the owner, the repo and the label name.
C19_ValuelessFlagIsMissing ==
  (Started /\ Len(argv) >= 1 /\ command.s \in Recognised) =>
    /\ RequiredIsValueless => (pc = "exited" /\ exitCode = 1 /\ calls = <<>>)
    /\ calls # <<>> =>
         /\ TokenOf(options).t = "string"
         /\ command.s # "copy" =>
              (Get(options, "owner").t = "string" /\ Get(options, "repo").t = "string")
         /\ command.s \in {"create", "get", "update", "delete"} =>
              Get(options, "name").t = "string"

\* ---------------------------------------------------------------- C20
ClearTarget == <<Get(options, "owner").v, Get(options, "repo").v>>

NamesOf(labels) == {labels[i].name.v : i \in 1..Len(labels)}

\* labels the repository holds that the list call of the run did not return
Unlisted == NamesOf(remote[ClearTarget]) \ NamesOf(items)

\* C20: whatever other actors do meanwhile, clear lists once and never again,
\* and its deletes go to the names that list returned, in that order; a label
\* created under a new name after the list is never a target of the run.
C20_ClearWorksOnItsSnapshot ==
  ClearListed =>
    /\ Len(calls) >= 1 /\ calls[1].method = "GET" /\ Len(Requests("GET")) = 1
    /\ LET deletes == Requests("DELETE")
       IN /\ Len(deletes) = (IF pc = "exited" THEN Len(items) ELSE idx)
          /\ Len(calls) = 1 + Len(deletes)
          /\ \A j \in 1..Len(deletes) : deletes[j].name = items[j].name.v
          /\ \A j \in 1..Len(deletes) : deletes[j].name \notin Unlisted

\* clear deleted every label it had listed, none failing, and ended while the
\* repository held a label another actor created after the list
C20_Witness ==
  /\ ClearListed /\ pc = "exited" /\ Len(items) >= 1
  /\ errorCount = 0 /\ successCount = Len(items)
  /\ Unlisted # {} /\ remote[ClearTarget] # <<>>

====
